---- MODULE Spec2Model ----
(***************************************************************************)
(* Model of redis_schema (src/src/lib.rs): typed key handles (SetKey,      *)
(* StringKey, IntKey) whose methods build redis::Cmd values, the free      *)
(* multi-key builder mget, and the scenario of tests::test_with_redis run  *)
(* against a store.                                                        *)
(*                                                                         *)
(* A redis::Cmd is modelled as the ordered list of its argument tokens     *)
(* (strings, the command name first).  A value that implements             *)
(* ToRedisArgs is a tagged record; ToRedisArgs turns it into tokens the    *)
(* way the redis crate does (text unchanged, integers in decimal).         *)
(***************************************************************************)
EXTENDS Integers, Sequences, FiniteSets, TLC

VARIABLES cmd, call, ret, store, reply, pc, test

vars == <<cmd, call, ret, store, reply, pc, test>>

----------------------------------------------------------------------------
(* Bounds of the model *)

\* longest key sequence handed to mget / sunion / sinter
MaxKeys == 3

\* width of the store's signed integers (64 in the real store; scaled down)
StoreIntBits == 3

----------------------------------------------------------------------------
(* Values that implement ToRedisArgs *)

StrV(s) == [t |-> "str", s |-> s]
IntV(i) == [t |-> "int", i |-> i]
\* a floating point number, held in tenths: FloatV(15) is 1.5
FloatV(x) == [t |-> "float", tenths |-> x]
\* a slice / Vec of values: one token per item
VecV(items) == [t |-> "vec", items |-> items]

DigitChar == <<"0", "1", "2", "3", "4", "5", "6", "7", "8", "9">>

RECURSIVE Digits(_)
Digits(n) == IF n < 10 THEN DigitChar[n + 1]
             ELSE Digits(n \div 10) \o DigitChar[(n % 10) + 1]

\* decimal formatting of an integer
Itoa(i) == IF i < 0 THEN "-" \o Digits(-i) ELSE Digits(i)

\* decimal formatting of a float given in tenths
Ftoa(x) == IF x < 0 THEN "-" \o Digits((-x) \div 10) \o "." \o Digits((-x) % 10)
           ELSE Digits(x \div 10) \o "." \o Digits(x % 10)

RECURSIVE ToRedisArgs(_)
ToRedisArgs(v) ==
    CASE v.t = "str" -> <<v.s>>
      [] v.t = "int" -> <<Itoa(v.i)>>
      [] v.t = "float" -> <<Ftoa(v.tenths)>>
      [] v.t = "vec" ->
            IF v.items = <<>> THEN <<>>
            ELSE ToRedisArgs(Head(v.items)) \o ToRedisArgs(VecV(Tail(v.items)))

is_single_arg(v) == IF v.t = "vec" THEN Len(v.items) = 1 ELSE TRUE

NumberIsFloat(v) == v.t = "float"

----------------------------------------------------------------------------
(* redis::Cmd *)

CmdNew == <<>>

\* Cmd::arg: appends the tokens of one value
Arg(c, v) == c \o ToRedisArgs(v)

\* redis::cmd(name): a command holding its name
cmd_named(name) == Arg(CmdNew, StrV(name))

\* The constructors of redis::Cmd that lib.rs calls.
Cmd_del(k) == Arg(cmd_named("DEL"), k)

Cmd_ttl(k) == Arg(cmd_named("TTL"), k)

Cmd_pttl(k) == Arg(cmd_named("PTTL"), k)

Cmd_expire(k, seconds) == Arg(Arg(cmd_named("EXPIRE"), k), IntV(seconds))

\* Cmd::get (redis crate): "Get the value of a key.  If key is a vec this
\* becomes an MGET."
Cmd_get(k) == Arg(cmd_named(IF is_single_arg(k) THEN "GET" ELSE "MGET"), k)

Cmd_set(k, value) == Arg(Arg(cmd_named("SET"), k), value)

Cmd_sadd(k, member) == Arg(Arg(cmd_named("SADD"), k), member)

Cmd_srem(k, member) == Arg(Arg(cmd_named("SREM"), k), member)

Cmd_smembers(k) == Arg(cmd_named("SMEMBERS"), k)

\* Cmd::incr (redis crate): "Increment the numeric value of a key by the given
\* amount.  This issues a INCRBY or INCRBYFLOAT depending on the type."
Cmd_incr(k, delta) ==
    Arg(Arg(cmd_named(IF NumberIsFloat(delta) THEN "INCRBYFLOAT" ELSE "INCRBY"), k), delta)

----------------------------------------------------------------------------
(* Key shapes and capability traits *)

Shapes == {"SetKey", "StringKey", "IntKey"}

\* the impl blocks, with GenericValue also implemented for IntKey
Impls_IntKeyGeneric ==
    { <<"SetKey", "Key">>, <<"SetKey", "GenericValue">>,
      <<"StringKey", "SingleValue">>, <<"StringKey", "GenericValue">>,
      <<"StringKey", "Key">>,
      <<"IntKey", "Key">>, <<"IntKey", "SingleValue">>, <<"IntKey", "GenericValue">> }

\* the impl blocks: <<shape, trait>>
Impls == { <<"SetKey", "Key">>, <<"SetKey", "GenericValue">>,
           <<"StringKey", "SingleValue">>, <<"StringKey", "GenericValue">>,
           <<"StringKey", "Key">>,
           <<"IntKey", "Key">>, <<"IntKey", "SingleValue">> }

Implements(S, trait) == <<S, trait>> \in Impls

\* the methods each trait gives a handle
TraitMethods(trait) ==
    CASE trait = "Key" -> {"key", "del"}
      [] trait = "GenericValue" -> {"ttl", "pttl", "expire"}
      [] trait = "SingleValue" -> {"get", "set"}

\* the methods and associated functions of each shape's own impl block
InherentMethods(S) ==
    CASE S = "SetKey" -> {"sadd", "srem", "smembers", "sunion", "sinter"}
      [] S = "StringKey" -> {}
      [] S = "IntKey" -> {"incr"}

\* method resolution: the call S::op type-checks
HasMethod(S, op) ==
    \/ op \in InherentMethods(S)
    \/ \E trait \in {"Key", "GenericValue", "SingleValue"} :
          Implements(S, trait) /\ op \in TraitMethods(trait)

\* the bound V: SingleValue<K> of mget
MgetAccepts(S) == Implements(S, "SingleValue")

\* S::new(key)
new(S, k) == [shape |-> S, key |-> k]

\* key() that returns something other than the stored field
key_other(h) == StrV(h.shape)

\* self.key()
key(h) == h.key

\* del that builds another command
del_unlink(h) == Arg(cmd_named("UNLINK"), key(h))

del(h) == Cmd_del(key(h))

ttl(h) == Cmd_ttl(key(h))

pttl(h) == Cmd_pttl(key(h))

\* expire that validates its argument
expire_clamped(h, ttl_secs) == Cmd_expire(key(h), IF ttl_secs = 0 THEN 1 ELSE ttl_secs)

expire(h, ttl_secs) == Cmd_expire(key(h), ttl_secs)

\* get whose command depends on the result type
get_typed(h, M) == Arg(Cmd_get(key(h)), StrV(M))

\* M is the result type the caller names; the body does not use it
get(h, M) == Cmd_get(key(h))

set(h, val) == Cmd_set(key(h), val)

\* sadd with key and member swapped
sadd_swapped(h, member) == Cmd_sadd(member, h.key)

sadd(h, member) == Cmd_sadd(h.key, member)

\* srem with key and member swapped
srem_swapped(h, member) == Cmd_srem(member, h.key)

srem(h, member) == Cmd_srem(h.key, member)

smembers(h) == Cmd_smembers(h.key)

\* incr that caps the amount itself
incr_capped(h, amount) ==
    Cmd_incr(h.key, IF amount.t = "int" /\ amount.i > 1 THEN IntV(1) ELSE amount)

incr(h, amount) == Cmd_incr(h.key, amount)

\* the loop, putting each key in front of the ones before it
RECURSIVE ArgKeys_reversed(_, _)
ArgKeys_reversed(c, keys) ==
    IF keys = <<>> THEN c ELSE Arg(ArgKeys_reversed(c, Tail(keys)), key(Head(keys)))

\* the loop "for k in keys { cmd.arg(k.key()); }"
RECURSIVE ArgKeys(_, _)
ArgKeys(c, keys) ==
    IF keys = <<>> THEN c ELSE ArgKeys(Arg(c, key(Head(keys))), Tail(keys))

mget(keys) == ArgKeys(Arg(CmdNew, StrV("MGET")), keys)

\* sunion with the command name of sinter
sunion_as_sinter(keys) == ArgKeys(Arg(CmdNew, StrV("SINTER")), keys)

sunion(keys) == ArgKeys(Arg(CmdNew, StrV("SUNION")), keys)

sinter(keys) == ArgKeys(Arg(CmdNew, StrV("SINTER")), keys)

----------------------------------------------------------------------------
(* The store behind the connection, as far as the scenarios use it: a map  *)
(* from key to nothing, a string or a set of strings.                      *)

KeyTokens == {"myset1", "test_first"}

MemberTokens == {"first", "member", "test_second"}

StoreIntMin == -(2 ^ (StoreIntBits - 1))

StoreIntMax == (2 ^ (StoreIntBits - 1)) - 1

Absent == [t |-> "absent"]

StringEntry(s) == [t |-> "string", s |-> s]

SetEntry(m) == [t |-> "set", members |-> m]

StoredStrings == {"first"} \cup {Itoa(i) : i \in StoreIntMin..StoreIntMax}

StoreEntries ==
    {Absent} \cup {StringEntry(s) : s \in StoredStrings}
             \cup {SetEntry(m) : m \in (SUBSET MemberTokens) \ {{}}}

IntReply(i) == [t |-> "int", i |-> i]

MembersReply(m) == [t |-> "members", members |-> m]

ErrorReply(e) == [t |-> "error", e |-> e]

NoReply == [t |-> "none"]

Range(f) == {f[i] : i \in DOMAIN f}

NotAnInt == [ok |-> FALSE, i |-> 0]

\* the store's strict reading of a decimal integer in its range
ParseInt(s) ==
    IF \E i \in StoreIntMin..StoreIntMax : Itoa(i) = s
    THEN [ok |-> TRUE, i |-> CHOOSE i \in StoreIntMin..StoreIntMax : Itoa(i) = s]
    ELSE NotAnInt

MembersOf(e) == IF e.t = "set" THEN e.members ELSE {}

Result(st, r) == [store |-> st, reply |-> r]

WrongType == ErrorReply("WRONGTYPE")

ExecDel(st, ks) ==
    Result([k \in DOMAIN st |-> IF k \in Range(ks) THEN Absent ELSE st[k]],
           IntReply(Cardinality({k \in Range(ks) : st[k].t # "absent"})))

ExecSadd(st, k, ms) ==
    IF st[k].t = "string" THEN Result(st, WrongType)
    ELSE LET old == MembersOf(st[k])
             now == old \cup Range(ms)
         IN Result([st EXCEPT ![k] = SetEntry(now)], IntReply(Cardinality(now \ old)))

ExecSmembers(st, k) ==
    IF st[k].t = "string" THEN Result(st, WrongType)
    ELSE Result(st, MembersReply(MembersOf(st[k])))

ExecIncrBy(st, k, a) ==
    LET delta == ParseInt(a)
        cur == IF st[k].t = "absent" THEN [ok |-> TRUE, i |-> 0] ELSE ParseInt(st[k].s)
        sum == cur.i + delta.i
    IN  IF st[k].t = "set" THEN Result(st, WrongType)
        ELSE IF ~delta.ok \/ ~cur.ok
        THEN Result(st, ErrorReply("value is not an integer or out of range"))
        ELSE IF sum < StoreIntMin \/ sum > StoreIntMax
        THEN Result(st, ErrorReply("increment or decrement would overflow"))
        ELSE Result([st EXCEPT ![k] = StringEntry(Itoa(sum))], IntReply(sum))

\* number of tokens a command may have: <<least, most>>, most = 0 for no limit
Arity(name) ==
    CASE name = "DEL" -> <<2, 0>>
      [] name = "SADD" -> <<3, 0>>
      [] name = "SMEMBERS" -> <<2, 2>>
      [] name = "INCRBY" -> <<3, 3>>

\* the commands the store model executes
Executable(c) ==
    /\ c # <<>>
    /\ c[1] \in {"DEL", "SADD", "SMEMBERS", "INCRBY"}
    /\ Len(c) >= 2 =>
          IF c[1] = "DEL" THEN \A i \in 2..Len(c) : c[i] \in KeyTokens
          ELSE c[2] \in KeyTokens

\* Cmd::query: the store executes the command and replies
Exec(st, c) ==
    LET name == c[1]
    IN  IF ~Executable(c) THEN Result(st, ErrorReply("unknown command"))
        ELSE IF Len(c) < Arity(name)[1] \/ (Arity(name)[2] # 0 /\ Len(c) > Arity(name)[2])
        THEN Result(st, ErrorReply("wrong number of arguments"))
        ELSE CASE name = "DEL" -> ExecDel(st, SubSeq(c, 2, Len(c)))
               [] name = "SADD" -> ExecSadd(st, c[2], SubSeq(c, 3, Len(c)))
               [] name = "SMEMBERS" -> ExecSmembers(st, c[2])
               [] name = "INCRBY" -> ExecIncrBy(st, c[2], c[3])

----------------------------------------------------------------------------
(* Inputs *)

KeyNames == {StrV(k) : k \in KeyTokens}

Members == {StrV("first"), StrV("member")}

Values == {StrV("first"), IntV(2)}

Amounts == {IntV(1), IntV(-2), IntV(3), FloatV(15)}

TtlSecs == {0, 1, 60, 2147483647}

ResultTypes == {"String", "i64"}

RECURSIVE SeqsUpTo(_, _)
SeqsUpTo(S, n) ==
    IF n = 0 THEN {<<>>}
    ELSE LET shorter == SeqsUpTo(S, n - 1)
         IN shorter \cup {Append(q, x) : q \in shorter, x \in S}

KeySeqs == SeqsUpTo(KeyNames, MaxKeys)

\* the iterator handed to a multi-key builder: one handle per name
Handles(S, names) == [i \in DOMAIN names |-> new(S, names[i])]

NoCmd == <<>>

NoRet == [t |-> "none"]

\* what was called: the operation, the shape of its handles, their key names,
\* the value arguments and the type parameter
Call(op, S, names, args) ==
    [op |-> op, shape |-> S, names |-> names, args |-> args, M |-> "none"]

NoCall == Call("none", "none", <<>>, <<>>)

NoTest == [key |-> StrV(""), member |-> StrV("")]

----------------------------------------------------------------------------
(* State *)

EmptyStore == [k \in KeyTokens |-> Absent]

Init ==
    /\ cmd = NoCmd
    /\ call = NoCall
    /\ ret = NoRet
    /\ store = EmptyStore
    /\ reply = NoReply
    /\ pc = "idle"
    /\ test = NoTest

\* an operation returned the command c
Returned(c, what) ==
    /\ pc = "idle"
    /\ cmd' = c
    /\ call' = what
    /\ ret' = NoRet
    /\ UNCHANGED <<store, reply, pc, test>>

Built(c, op, S, names, args) == Returned(c, Call(op, S, names, args))

KeyCall ==
    \E S \in Shapes, n \in KeyNames :
        /\ pc = "idle"
        /\ HasMethod(S, "key")
        /\ ret' = key(new(S, n))
        /\ cmd' = NoCmd
        /\ call' = Call("key", S, <<n>>, <<>>)
        /\ UNCHANGED <<store, reply, pc, test>>

Del ==
    \E S \in Shapes, n \in KeyNames :
        HasMethod(S, "del") /\ Built(del(new(S, n)), "del", S, <<n>>, <<>>)

Ttl ==
    \E S \in Shapes, n \in KeyNames :
        HasMethod(S, "ttl") /\ Built(ttl(new(S, n)), "ttl", S, <<n>>, <<>>)

Pttl ==
    \E S \in Shapes, n \in KeyNames :
        HasMethod(S, "pttl") /\ Built(pttl(new(S, n)), "pttl", S, <<n>>, <<>>)

Expire ==
    \E S \in Shapes, n \in KeyNames, ttl_secs \in TtlSecs :
        /\ HasMethod(S, "expire")
        /\ Built(expire(new(S, n), ttl_secs), "expire", S, <<n>>, <<IntV(ttl_secs)>>)

Get ==
    \E S \in Shapes, n \in KeyNames, M \in ResultTypes :
        /\ HasMethod(S, "get")
        /\ Returned(get(new(S, n), M), [Call("get", S, <<n>>, <<>>) EXCEPT !.M = M])

Set ==
    \E S \in Shapes, n \in KeyNames, val \in Values :
        HasMethod(S, "set") /\ Built(set(new(S, n), val), "set", S, <<n>>, <<val>>)

Sadd ==
    \E S \in Shapes, n \in KeyNames, member \in Members :
        /\ HasMethod(S, "sadd")
        /\ Built(sadd(new(S, n), member), "sadd", S, <<n>>, <<member>>)

Srem ==
    \E S \in Shapes, n \in KeyNames, member \in Members :
        /\ HasMethod(S, "srem")
        /\ Built(srem(new(S, n), member), "srem", S, <<n>>, <<member>>)

Smembers ==
    \E S \in Shapes, n \in KeyNames :
        /\ HasMethod(S, "smembers")
        /\ Built(smembers(new(S, n)), "smembers", S, <<n>>, <<>>)

Sunion ==
    \E S \in Shapes, names \in KeySeqs :
        /\ HasMethod(S, "sunion")
        /\ Built(sunion(Handles(S, names)), "sunion", S, names, <<>>)

Sinter ==
    \E S \in Shapes, names \in KeySeqs :
        /\ HasMethod(S, "sinter")
        /\ Built(sinter(Handles(S, names)), "sinter", S, names, <<>>)

Mget ==
    \E S \in Shapes, names \in KeySeqs :
        /\ MgetAccepts(S)
        /\ Built(mget(Handles(S, names)), "mget", S, names, <<>>)

Incr ==
    \E S \in Shapes, n \in KeyNames, amount \in Amounts :
        /\ HasMethod(S, "incr")
        /\ Built(incr(new(S, n), amount), "incr", S, <<n>>, <<amount>>)

\* one statement of a test: build a command and query it
Step(c, op, S, names, args, next) ==
    /\ cmd' = c
    /\ call' = Call(op, S, names, args)
    /\ ret' = NoRet
    /\ store' = Exec(store, c).store
    /\ reply' = Exec(store, c).reply
    /\ pc' = next

\* tests::test_with_redis, for a set key n and a member m
TestDel ==
    \E n \in KeyNames, m \in Members :
        /\ pc = "idle"
        /\ test' = [key |-> n, member |-> m]
        /\ Step(del(new("SetKey", n)), "del", "SetKey", <<n>>, <<>>, "deleted")

TestSadd ==
    /\ pc = "deleted"
    /\ Step(sadd(new("SetKey", test.key), test.member), "sadd", "SetKey",
            <<test.key>>, <<test.member>>, "added")
    /\ UNCHANGED test

TestSmembers ==
    /\ pc = "added"
    /\ Step(smembers(new("SetKey", test.key)), "smembers", "SetKey",
            <<test.key>>, <<>>, "listed")
    /\ UNCHANGED test

\* Cmd::sadd(&["test_first", "test_second"], "member").query(..), then Ok(())
TestTail ==
    /\ pc = "listed"
    /\ Step(Cmd_sadd(VecV(<<StrV("test_first"), StrV("test_second")>>), StrV("member")),
            "Cmd::sadd", "none", <<>>, <<>>, "idle")
    /\ test' = NoTest

\* IntKey::new(n).incr(amount).query(..)
IncrQuery ==
    \E n \in KeyNames, amount \in Amounts :
        /\ pc = "idle"
        /\ HasMethod("IntKey", "incr")
        /\ Executable(incr(new("IntKey", n), amount))
        /\ Step(incr(new("IntKey", n), amount), "incr", "IntKey", <<n>>, <<amount>>, "idle")
        /\ UNCHANGED test

\* the command builders alone: no command is sent
Next ==
    \/ KeyCall
    \/ Del
    \/ Ttl
    \/ Pttl
    \/ Expire
    \/ Get
    \/ Set
    \/ Sadd
    \/ Srem
    \/ Smembers
    \/ Sunion
    \/ Sinter
    \/ Mget
    \/ Incr

Spec == Init /\ [][Next]_vars

\* the store may hold anything when a client connects
StoreInit ==
    /\ cmd = NoCmd
    /\ call = NoCall
    /\ ret = NoRet
    /\ store \in [KeyTokens -> StoreEntries]
    /\ reply = NoReply
    /\ pc = "idle"
    /\ test = NoTest

\* one client sending commands to the store
StoreNext ==
    \/ TestDel
    \/ TestSadd
    \/ TestSmembers
    \/ TestTail
    \/ IncrQuery

StoreSpec == StoreInit /\ [][StoreNext]_vars

----------------------------------------------------------------------------
(* The text each input value is expected to appear as in a command *)

Decimal(i) ==
    CASE i = 0 -> "0"
      [] i = 1 -> "1"
      [] i = 2 -> "2"
      [] i = 3 -> "3"
      [] i = -2 -> "-2"
      [] i = 60 -> "60"
      [] i = 2147483647 -> "2147483647"

Token(v) ==
    CASE v.t = "str" -> v.s
      [] v.t = "int" -> Decimal(v.i)
      [] v.t = "float" /\ v.tenths = 15 -> "1.5"

Tokens(vs) == [i \in DOMAIN vs |-> Token(vs[i])]

----------------------------------------------------------------------------
(* C1 *)

ShapeOpTable ==
    ({"StringKey"} \X {"del", "ttl", "pttl", "expire", "get", "set", "mget"})
    \cup ({"IntKey"} \X {"del", "get", "set", "incr", "mget"})
    \cup ({"SetKey"} \X {"del", "ttl", "pttl", "expire", "sadd", "srem", "smembers",
                         "sunion", "sinter"})

CommandOps == {"del", "ttl", "pttl", "expire", "get", "set", "sadd", "srem",
               "smembers", "sunion", "sinter", "mget", "incr"}

Constructible(S, op) == IF op = "mget" THEN MgetAccepts(S) ELSE HasMethod(S, op)

\* C1: every command comes from a (shape, operation) pair of the table: a
\* string key builds del, ttl, pttl, expire, get, set; an integer key del, get,
\* set, incr; a set key del, ttl, pttl, expire, sadd, srem, smembers, sunion,
\* sinter; mget takes string and integer keys only, sunion/sinter set keys only;
\* and the pairs that type-check are exactly those of the table.
C1_ShapeOpTable ==
    /\ call.op \in CommandOps => <<call.shape, call.op>> \in ShapeOpTable
    /\ \A S \in Shapes, op \in CommandOps :
          Constructible(S, op) <=> <<S, op>> \in ShapeOpTable

C1_Witness == call.op = "mget" /\ call.shape = "IntKey" /\ Len(call.names) = 2

(* C2 *)

\* C2: S::new(n).key() returns n unchanged, for every shape S and name n.
C2_KeyRoundTrip == call.op = "key" => ret = call.names[1]

C2_Witness == call.op = "key" /\ call.shape = "SetKey" /\ ret = StrV("test_first")

(* C3 *)

\* C3: mget over string or integer key handles named n1..nk returns the one
\* command ["MGET", n1, ..., nk], names in input order; ["MGET"] for no keys.
C3_Mget ==
    call.op = "mget" =>
        /\ call.shape \in {"StringKey", "IntKey"}
        /\ cmd = <<"MGET">> \o Tokens(call.names)
        /\ call.names = <<>> => cmd = <<"MGET">>

C3_Witness ==
    /\ call.op = "mget"
    /\ call.names = <<StrV("test_first"), StrV("myset1"), StrV("test_first")>>
    /\ cmd = <<"MGET", "test_first", "myset1", "test_first">>

(* C4 *)

\* C4: SetKey::sunion / SetKey::sinter over set-key handles named n1..nk return
\* ["SUNION", n1, ..., nk] / ["SINTER", n1, ..., nk]: input order, each name once,
\* for k = 0 and k = 1 too.
C4_SunionSinter ==
    /\ call.op = "sunion" => cmd = <<"SUNION">> \o Tokens(call.names)
    /\ call.op = "sinter" => cmd = <<"SINTER">> \o Tokens(call.names)
    /\ call.op \in {"sunion", "sinter"} =>
          call.shape = "SetKey" /\ Len(cmd) = 1 + Len(call.names)

C4_Witness ==
    /\ call.op = "sunion"
    /\ call.names = <<StrV("myset1"), StrV("myset1"), StrV("test_first")>>
    /\ cmd = <<"SUNION", "myset1", "myset1", "test_first">>

(* C5 *)

\* C5: h.del() is exactly ["DEL", n] for a handle of any shape with name n.
C5_Del == call.op = "del" => cmd = <<"DEL", call.names[1].s>>

C5_Witness == call.op = "del" /\ call.shape = "IntKey" /\ cmd = <<"DEL", "myset1">>

(* C6 *)

\* C6: on a set key or string key named n, expire(ttl_secs) is
\* ["EXPIRE", n, ttl_secs] for every unsigned ttl_secs (0 and the largest
\* included: nothing is validated), ttl() is ["TTL", n] and pttl() ["PTTL", n].
C6_Generic ==
    /\ call.op = "expire" =>
          cmd = <<"EXPIRE", call.names[1].s, Decimal(call.args[1].i)>>
    /\ call.op = "ttl" => cmd = <<"TTL", call.names[1].s>>
    /\ call.op = "pttl" => cmd = <<"PTTL", call.names[1].s>>
    /\ call.op \in {"expire", "ttl", "pttl"} => call.shape \in {"SetKey", "StringKey"}

C6_Witness ==
    /\ call.op = "expire"
    /\ call.shape = "SetKey"
    /\ call.args = <<IntV(0)>>
    /\ cmd = <<"EXPIRE", "myset1", "0">>

(* C7 *)

\* C7: on a string key named n, set(v) is ["SET", n, v] and get() is
\* ["GET", n] whatever result type the caller names.
C7_GetSet ==
    /\ call.op = "set" /\ call.shape = "StringKey" =>
          cmd = <<"SET", call.names[1].s, Token(call.args[1])>>
    /\ call.op = "get" /\ call.shape = "StringKey" =>
          /\ cmd = <<"GET", call.names[1].s>>
          /\ \A M \in ResultTypes : get(new("StringKey", call.names[1]), M) = cmd

C7_Witness ==
    /\ call.op = "get"
    /\ call.shape = "StringKey"
    /\ call.M = "i64"
    /\ cmd = <<"GET", "myset1">>

(* C8 *)

\* C8: whatever the store held, after the commands of del(), sadd(m) and
\* smembers() on handles for one key name ran in that order, the reply to
\* smembers is exactly the set {m}.
C8_DelSaddSmembers ==
    pc = "listed" => reply = MembersReply({test.member.s})

C8_Witness ==
    /\ pc = "listed"
    /\ test.key = StrV("myset1")
    /\ reply = MembersReply({"first"})
    /\ store["test_first"] = StringEntry("first")

(* C9 *)

CommandNames == {"DEL", "TTL", "PTTL", "EXPIRE", "GET", "SET", "SADD", "SREM",
                 "SMEMBERS", "SUNION", "SINTER", "MGET", "INCR", "INCRBY"}

\* C9 as stated: the first token of every command built is one of DEL, TTL,
\* PTTL, EXPIRE, GET, SET, SADD, SREM, SMEMBERS, SUNION, SINTER, MGET, INCR,
\* INCRBY.
C9_FixedNames == call.op \in CommandOps => cmd[1] \in CommandNames

\* C9 amended: the first token is one of those names or INCRBYFLOAT, which
\* incr builds exactly when the amount is a floating point number; the key
\* names follow in input order and then the value arguments.
C9_Names ==
    call.op \in CommandOps =>
        /\ cmd[1] \in CommandNames \cup {"INCRBYFLOAT"}
        /\ cmd[1] = "INCRBYFLOAT" <=> (call.op = "incr" /\ call.args[1].t = "float")
        /\ Tail(cmd) = Tokens(call.names) \o Tokens(call.args)

C9_Witness ==
    /\ call.op = "incr"
    /\ call.args = <<FloatV(15)>>
    /\ cmd = <<"INCRBYFLOAT", "myset1", "1.5">>

(* C10 *)

\* the integer an entry of the store stands for, if any
HoldsInt(e, v) == IF e.t = "absent" THEN v = 0 ELSE e = StringEntry(Itoa(v))

\* C10: incr(amount) on an integer key named n builds one command carrying n
\* and then amount exactly as given (no arithmetic, no overflow check in the
\* builder); executed on a store holding the integer v at n, it stores
\* v + amount there and replies v + amount whenever the sum is in the store's
\* integer range, and otherwise the store refuses and keeps v.
C10_Incr ==
    [][ (call'.op = "incr" /\ pc' = "idle" /\ call'.args[1].t = "int") =>
          LET n == call'.names[1].s
              a == call'.args[1].i
          IN  /\ cmd' = <<"INCRBY", n, Decimal(a)>>
              /\ \A v \in StoreIntMin..StoreIntMax :
                    HoldsInt(store[n], v) =>
                       IF v + a \in StoreIntMin..StoreIntMax
                       THEN /\ store' = [store EXCEPT ![n] = StringEntry(Itoa(v + a))]
                            /\ reply' = IntReply(v + a)
                       ELSE /\ store' = store
                            /\ reply'.t = "error" ]_vars

C10_Witness ==
    /\ call.op = "incr"
    /\ call.args = <<IntV(3)>>
    /\ call.names = <<StrV("myset1")>>
    /\ reply = IntReply(1)
    /\ store["myset1"] = StringEntry("1")

====
